---- MODULE Spec2Model ----
(***************************************************************************)
(* Model of the wallpaper curation pipeline of scripts/curate_wallpapers.py *)
(* (main, process_repository, clone_repository, save_checkpoint,            *)
(* load_checkpoint, generate_manifest, save_manifest): one run of the       *)
(* program is a sequence of steps of main; the checkpoint and manifest      *)
(* files live on disk and survive the process, everything else is memory    *)
(* of the process and is lost when it terminates.                           *)
(***************************************************************************)
EXTENDS Integers, Sequences, FiniteSets, TLC

\* ------------------------------------------------------------------ bounds
\* Number of configured sources (len(REPOSITORIES)) that the model runs over.
NumRepos == 2
\* Largest number of candidates one scan returns.
MaxImages == 1
\* Largest number of candidates of the source process_repository is called on
\* on its own.
MaxCand == 3
\* Number of files of the tree find_wallpapers is called on, on its own.
MaxFiles == 2
\* Largest number of candidates find_wallpapers returns in a call of
\* process_repository that follows a plan; more than the test-mode limit.
MaxScan == 12
\* Width in bits of the perceptual hashes the distance is computed on, on its
\* own (the hashes of the program have 64 bits).
HashBits == 6

\* ------------------------------------------------------- program constants
\* clone_repository(..., max_retries: int = 3)
max_retries == 3
\* PHASH_THRESHOLD = 5
PHASH_THRESHOLD == 5
\* image_paths = image_paths[:10]
TEST_LIMIT == 10
\* MIN_RESOLUTION = (800, 600)
MIN_WIDTH == 800
MIN_HEIGHT == 600
\* MAX_FILE_SIZE = 20 * 1024 * 1024
MAX_FILE_SIZE == 20971520

Repos == 0 .. (NumRepos - 1)

\* Perceptual hashes the fingerprint function returns in the runs of the
\* pipeline (as the integer value of the hex string): 0 and 63 differ in 6
\* bits, so a candidate is a duplicate of a seen asset when it has its hash.
PHashes == {0, 63}
\* compute_perceptual_hash returns "" on failure.
NoHash == -1

\* Outcomes of one fetch attempt, as the environment produces them.
\*   ok      every git command returned 0
\*   network git returned non-zero, stderr names a connection / resolution error
\*   auth    git returned non-zero for any other reason (authentication, bad ref)
\*   timeout subprocess.TimeoutExpired
\*   oserror subprocess.run raised another exception (git cannot be executed)
FetchResults == {"ok", "network", "auth", "timeout", "oserror"}
Transient == {"network", "timeout"}

VARIABLES
    pc,                \* position of main; "idle" before the first run
    test_mode,         \* args.test (args.resume is read once, by Start)
    all_wallpapers,    \* main: accumulated records
    processed_hashes,  \* main: the seen set of perceptual hashes
    start_index,       \* main: first source index of this run
    idx,               \* main: loop variable of the for loop over REPOSITORIES
    attempt,           \* clone_repository: attempt counter
    outcome,           \* result of the latest fetch attempt ("none" before the first)
    clone_ret,         \* clone_repository: "pending", "path" or "none" (None)
    tree,              \* repo_path exists in the scratch directory
    image_paths,       \* process_repository: candidates not yet processed
    wallpapers,        \* process_repository: records of the current source
    ckpt,              \* the file CHECKPOINT_PATH
    manifest,          \* what this run has written to MANIFEST_PATH
    accepted,          \* assets process_repository accepted in this run, with the
                       \* perceptual hash each was accepted under
    failedSrc,         \* sources of this run whose acquisition returned None
    ckptFailed,        \* sources of this run whose save_checkpoint raised
    chain,             \* arguments of the latest save the lineage completed
    saved,             \* arguments of the latest completed save, while the file is untouched
    saveOld,           \* content of the file when the running save_checkpoint opened it
    crash,             \* where the previous run terminated abnormally, if it did
    temp_dirs,         \* while process_repository runs: which of the temporary
                       \* directories of its source and of the one before exist
    probe              \* a call of one function of the program on its own: the
                       \* arguments, the locals and the result

mem == <<all_wallpapers, processed_hashes, start_index, idx, attempt, outcome,
         clone_ret, tree, image_paths, wallpapers>>
args == <<test_mode>>
disk == <<ckpt, manifest>>
hist == <<accepted, failedSrc, ckptFailed, chain, saved, saveOld, crash>>
pipeline == <<pc, args, mem, disk, hist, temp_dirs>>
vars == <<pc, args, mem, disk, hist, temp_dirs, probe>>

\* ------------------------------------------------------------ small helpers
Range(s) == {s[k] : k \in 1 .. Len(s)}
Prefix(s, n) == [k \in 1 .. n |-> s[k]]
Min(a, b) == IF a < b THEN a ELSE b

NoFile == [exists |-> FALSE, data |-> <<>>]
File(d) == [exists |-> TRUE, data |-> d]
NoManifest == [exists |-> FALSE, total_wallpapers |-> 0, wallpapers |-> <<>>]
NoCrash == [at |-> "none", old |-> NoFile, new |-> NoFile]
NoProbe == [fn |-> "none"]

\* The latest entry of a log, after x is added to it.
Log(log, x) == <<x>>

\* A record of the output list: the source it comes from and the candidate.
Rec(i, p) == [repo |-> i, path |-> p]

\* An accepted asset: its record and the perceptual hash it was accepted
\* under (wallpaper_data does not hold the hash).
Asset(i, p, h) == [repo |-> i, path |-> p, phash |-> h]

\* The record of an accepted asset.
RecOf(a) == Rec(a.repo, a.path)

\* ------------------------------------------------- perceptual deduplication
\* imagehash: hex_to_hash(a) - hex_to_hash(b) counts the differing bits.
RECURSIVE Hamming(_, _)
Hamming(a, b) ==
    IF a = 0 /\ b = 0 THEN 0
    ELSE (IF a % 2 # b % 2 THEN 1 ELSE 0) + Hamming(a \div 2, b \div 2)

\* A candidate is a duplicate only below the threshold.
is_duplicateMut(phash, hashes) ==
    \E existing_hash \in hashes : Hamming(phash, existing_hash) < PHASH_THRESHOLD

\* process_repository: the duplicate loop over processed_hashes.
is_duplicate(phash, hashes) ==
    \E existing_hash \in hashes : Hamming(phash, existing_hash) <= PHASH_THRESHOLD

\* Every candidate with a valid hash and an embedding is accepted, duplicate
\* or not.
AcceptsMut(phash, emb, raised, hashes) ==
    phash # NoHash /\ emb /\ ~raised

\* process_repository: whether the loop body reaches wallpapers.append for a
\* candidate.  phash: the result of compute_perceptual_hash; emb: extract
\* returned an embedding; raised: a statement of the body raised.
Accepts(phash, emb, raised, hashes) ==
    /\ phash # NoHash
    /\ ~is_duplicate(phash, hashes)
    /\ emb
    /\ ~raised

\* The hash of every candidate that has one is added, accepted or not.
AddHashMut(hashes, phash, accept) ==
    IF phash # NoHash THEN hashes \cup {phash} ELSE hashes

\* processed_hashes.add(phash), reached only after wallpapers.append.
AddHash(hashes, phash, accept) ==
    IF accept THEN hashes \cup {phash} ELSE hashes

\* The first rejected candidate ends the loop.
LoopBodyMut(st, i, phash, emb, raised) ==
    LET accept == Accepts(phash, emb, raised, st.processed_hashes)
    IN [image_paths |-> IF accept THEN Tail(st.image_paths) ELSE <<>>,
        wallpapers |-> IF accept
                       THEN Append(st.wallpapers, Rec(i, Head(st.image_paths)))
                       ELSE st.wallpapers,
        processed_hashes |-> AddHash(st.processed_hashes, phash, accept),
        is_duplicate |-> FALSE,
        extract_called |-> FALSE]

\* A candidate without a hash ends the processing of the source.
LoopBodyFatalMut(st, i, phash, emb, raised) ==
    IF phash = NoHash
    THEN [image_paths |-> <<>>,
          wallpapers |-> st.wallpapers,
          processed_hashes |-> st.processed_hashes,
          is_duplicate |-> FALSE,
          extract_called |-> FALSE]
    ELSE LET accept == Accepts(phash, emb, raised, st.processed_hashes)
             dup == is_duplicate(phash, st.processed_hashes)
         IN [image_paths |-> Tail(st.image_paths),
             wallpapers |-> IF accept
                            THEN Append(st.wallpapers,
                                        Rec(i, Head(st.image_paths)))
                            ELSE st.wallpapers,
             processed_hashes |-> AddHash(st.processed_hashes, phash, accept),
             is_duplicate |-> dup,
             extract_called |-> ~dup]

\* process_repository: the body of the loop over image_paths for one
\* candidate of source i, on the locals st of the function.  is_duplicate is
\* the local flag of that name (never set when the candidate has no hash),
\* extract_called whether extractor.extract was reached.
LoopBody(st, i, phash, emb, raised) ==
    LET accept == Accepts(phash, emb, raised, st.processed_hashes)
        dup == phash # NoHash /\ is_duplicate(phash, st.processed_hashes)
    IN [image_paths |-> Tail(st.image_paths),
        wallpapers |-> IF accept
                       THEN Append(st.wallpapers, Rec(i, Head(st.image_paths)))
                       ELSE st.wallpapers,
        processed_hashes |-> AddHash(st.processed_hashes, phash, accept),
        is_duplicate |-> dup,
        extract_called |-> phash # NoHash /\ ~dup]

\* ------------------------------------------------------------ checkpoint file
\* The checkpoint file is the token sequence json.dump writes, in key order:
\* the opening brace, one token per record of 'wallpapers', 'last_repo_index',
\* 'timestamp', the closing brace.  A crash or an I/O error leaves a prefix.
TOpen == <<0, 0, 0>>
TRec(w) == <<1, w.repo, w.path>>
TIndex(i) == <<2, i, 0>>
TStamp == <<3, 0, 0>>
TClose == <<4, 0, 0>>

\* The index written is the one of the next source.
DumpMut(ws, repo_index) ==
    <<TOpen>> \o [k \in 1 .. Len(ws) |-> TRec(ws[k])]
              \o <<TIndex(repo_index + 1), TStamp, TClose>>

\* save_checkpoint: checkpoint_data as json.dump serialises it.
Dump(ws, repo_index) ==
    <<TOpen>> \o [k \in 1 .. Len(ws) |-> TRec(ws[k])]
              \o <<TIndex(repo_index), TStamp, TClose>>

\* A file that holds the JSON document 'null': it parses, to a value that
\* is no dict.
TNull == <<5, 0, 0>>

\* A complete document of the shape save_checkpoint writes; of the files
\* save_checkpoint leaves, json.load succeeds on these only.
WellFormed(d) ==
    /\ Len(d) >= 4
    /\ d[1] = TOpen
    /\ d[Len(d)] = TClose
    /\ d[Len(d) - 1] = TStamp
    /\ d[Len(d) - 2][1] = 2
    /\ \A k \in 2 .. (Len(d) - 3) : d[k][1] = 1

\* load_checkpoint: data.get('wallpapers', [])
ParseWallpapers(d) ==
    [k \in 1 .. (Len(d) - 4) |-> Rec(d[k + 1][2], d[k + 1][3])]

\* load_checkpoint: data.get('last_repo_index', 0)
ParseIndex(d) == d[Len(d) - 2][2]

\* An off-by-one in the resume index: the run resumes at the last completed
\* source instead of after it.
ResumeIndexMut(last_repo_index) == last_repo_index

\* load_checkpoint: the index a resumed run starts at.
ResumeIndex(last_repo_index) == last_repo_index + 1

\* 'return [], 0, set()'
EmptyState == <<<<>>, 0, {}>>

\* load_checkpoint: how the try block ends on an existing file: with the
\* exception of open() on a file that cannot be read, of json.load on a
\* file that is no JSON document, of data.get on a document that is no
\* dict, or with "none" at its return statement.
TryBlock(f, readable) ==
    IF ~readable THEN "OSError"
    ELSE IF f.data = <<TNull>> THEN "AttributeError"
    ELSE IF ~WellFormed(f.data) THEN "JSONDecodeError"
    ELSE "none"

\* The handler catches the parse error only.
ExceptClauseMut(exc) == exc = "JSONDecodeError"

\* 'except Exception as e': whether the handler catches exc.
ExceptClause(exc) == TRUE

\* load_checkpoint() on file f: whether the call raises, and what it
\* returns otherwise: (wallpapers, start index, processed_hashes).
LoadOutcome(f, readable) ==
    IF ~f.exists THEN [raised |-> FALSE, value |-> EmptyState]
    ELSE LET exc == TryBlock(f, readable)
         IN IF exc = "none"
            THEN [raised |-> FALSE,
                  value |-> <<ParseWallpapers(f.data),
                              ResumeIndex(ParseIndex(f.data)), {}>>]
            ELSE [raised |-> ~ExceptClause(exc), value |-> EmptyState]

\* load_checkpoint() on a file that can be read.
load_checkpoint(f) == LoadOutcome(f, TRUE).value

\* main: what the run starts from, unless load_checkpoint raises.
InitialState(r, f, readable) ==
    IF r THEN LoadOutcome(f, readable)
    ELSE [raised |-> FALSE, value |-> EmptyState]

\* ------------------------------------------------------------------ manifest
\* The count is one more than the number of records.
generate_manifestMut(ws) ==
    [exists |-> TRUE, total_wallpapers |-> Len(ws) + 1, wallpapers |-> ws]

\* generate_manifest
generate_manifest(ws) ==
    [exists |-> TRUE, total_wallpapers |-> Len(ws), wallpapers |-> ws]

\* ---------------------------------------------------------- clone_repository
\* Sparse checkout is used in test mode when the source has a 'test_path'
\* (every entry of REPOSITORIES has one).
Sparse(t) == t

\* An off-by-one in the loop condition: one attempt too many.
LoopGuardMut(a) == a <= max_retries

\* while attempt < max_retries
LoopGuard(a) == a < max_retries

\* The attempt counter is never advanced.
IncAttemptMut(a) == a

\* attempt += 1
IncAttempt(a) == a + 1

\* What one pass through the body of the while loop does with the result of
\* the fetch, at attempt number att (already incremented):
\*   next: "path" (return repo_path), "none" (return None), "retry" (continue,
\*         or fall out of the if and re-test the loop condition)
\*   rm:   shutil.rmtree(repo_path) is called
clone_step(sparse, att, res) ==
    IF res = "ok" THEN [next |-> "path", rm |-> FALSE]
    ELSE IF res = "timeout"
        THEN [next |-> IF att < max_retries THEN "retry" ELSE "none", rm |-> TRUE]
    ELSE IF sparse \/ res = "oserror"
        \* raise Exception("Init failed") / any other exception: outer except
        THEN [next |-> IF att < max_retries THEN "retry" ELSE "none", rm |-> TRUE]
    ELSE IF res = "network"
        \* full clone, 'Could not resolve host' or 'Connection' in stderr
        THEN [next |-> "retry", rm |-> FALSE]
    \* full clone, any other non-zero return code
    ELSE [next |-> "none", rm |-> FALSE]

\* -------------------------------------------------------------------- main
\* The accumulated list is replaced by the records of the latest source.
ExtendMut(all, ws) == ws

\* The records of the latest source are put in front of the list.
ExtendFrontMut(all, ws) == ws \o all

\* all_wallpapers.extend(wallpapers)
Extend(all, ws) == all \o ws

\* enumerate(REPOSITORIES[start_index:], start=start_index): the next index.
NextIndex(i) == i + 1

\* The for loop ends after its first source.
LoopPcMut(i) == IF i = 0 THEN "clone" ELSE "manifest"

\* Where main goes when the loop variable becomes i.
LoopPc(i) == IF i < NumRepos THEN "clone" ELSE "manifest"

\* Test mode keeps every candidate.
CandidatesMut(n, t) == [k \in 1 .. n |-> k]

\* find_wallpapers returns n candidates; test mode keeps the first ten.
Candidates(n, t) == [k \in 1 .. (IF t THEN Min(n, TEST_LIMIT) ELSE n) |-> k]

\* process_repository, entered for source i when the loop has one:
\* tempfile.TemporaryDirectory() makes a new directory.  Of the directories
\* there were, the one of the source before i is still followed.
EnterSource(dirs, i) ==
    IF LoopPc(i) = "clone" THEN (dirs \cap {i - 1}) \cup {i} ELSE {}

\* The directory of the source stays when the with block is left.
LeaveSourceMut(dirs, i) == dirs \cap {i}

\* process_repository: the with block is left and the directory of source i
\* is removed; no other directory is followed outside process_repository.
LeaveSource(dirs, i) == {}

\* ------------------------------------------------------------------- states
Running == {"clone", "cloned", "process", "save_open", "save_dump",
            "manifest", "cleanup"}
Stopped == {"idle", "crashed", "done"}

Init ==
    /\ pc = "idle"
    /\ test_mode = FALSE
    /\ all_wallpapers = <<>> /\ processed_hashes = {}
    /\ start_index = 0 /\ idx = 0
    /\ attempt = 0 /\ outcome = "none" /\ clone_ret = "pending" /\ tree = FALSE
    /\ image_paths = <<>> /\ wallpapers = <<>>
    /\ ckpt = NoFile /\ manifest = NoManifest
    /\ accepted = {}
    /\ failedSrc = {} /\ ckptFailed = {}
    /\ chain = <<>>
    /\ saved = <<>> /\ saveOld = NoFile /\ crash = NoCrash
    /\ temp_dirs = {}
    /\ probe = NoProbe

\* The locals of process_repository and clone_repository at the start of a
\* source.
FreshSource ==
    /\ attempt' = 0 /\ outcome' = "none" /\ clone_ret' = "pending"
    /\ tree' = FALSE /\ image_paths' = <<>> /\ wallpapers' = <<>>

\* main, up to the for loop: parse the flags, load the checkpoint if resuming.
\* A run that does not resume, or that follows a completed run, starts a new
\* lineage.  In the runs of the pipeline open() succeeds on a checkpoint
\* that exists.
Start(r, t) ==
    /\ UNCHANGED probe
    /\ pc \in Stopped
    /\ LET st == InitialState(r, ckpt, TRUE).value
           fresh == ~r \/ pc # "crashed"
       IN /\ all_wallpapers' = st[1]
          /\ start_index' = st[2]
          /\ processed_hashes' = st[3]
          /\ idx' = st[2]
          /\ pc' = LoopPc(st[2])
          /\ chain' = IF fresh THEN <<>> ELSE chain
          /\ temp_dirs' = EnterSource({}, st[2])
    /\ test_mode' = t
    /\ FreshSource
    /\ accepted' = {} /\ failedSrc' = {} /\ ckptFailed' = {}
    /\ saveOld' = NoFile
    /\ crash' = NoCrash
    /\ manifest' = NoManifest
    /\ UNCHANGED <<ckpt, saved>>

\* clone_repository: one pass through the while loop.  left: a failed fetch
\* leaves a partial tree at repo_path (an input only when the fetch failed and
\* rmtree is not called).
CloneAttempt(res, left) ==
    /\ UNCHANGED <<probe, temp_dirs>>
    /\ pc = "clone"
    /\ LoopGuard(attempt)
    /\ LET att == IncAttempt(attempt)
           step == clone_step(Sparse(test_mode), att, res)
       IN /\ left => (res # "ok" /\ ~step.rm)
          /\ attempt' = att
          /\ outcome' = res
          /\ clone_ret' = IF step.next = "retry" THEN "pending" ELSE step.next
          /\ pc' = IF step.next = "retry" THEN "clone" ELSE "cloned"
          /\ tree' = IF res = "ok" THEN TRUE
                     ELSE IF step.rm THEN FALSE ELSE left
    /\ UNCHANGED <<args, all_wallpapers, processed_hashes, start_index, idx,
                   image_paths, wallpapers, disk, hist>>

\* clone_repository: the while loop ends with every attempt used.
CloneExhausted ==
    /\ UNCHANGED <<probe, temp_dirs>>
    /\ pc = "clone"
    /\ ~LoopGuard(attempt)
    /\ clone_ret' = "none"
    /\ pc' = "cloned"
    /\ UNCHANGED <<args, all_wallpapers, processed_hashes, start_index, idx,
                   attempt, outcome, tree, image_paths, wallpapers, disk, hist>>

\* process_repository: 'if not repo_path: return wallpapers', the temporary
\* directory is removed, and main extends the list by the empty result.
SkipSource ==
    /\ UNCHANGED probe
    /\ pc = "cloned" /\ clone_ret = "none"
    /\ all_wallpapers' = Extend(all_wallpapers, wallpapers)
    /\ failedSrc' = failedSrc \cup {idx}
    /\ temp_dirs' = LeaveSource(temp_dirs, idx)
    /\ FreshSource
    /\ pc' = "save_open"
    /\ UNCHANGED <<args, processed_hashes, start_index, idx, disk, accepted,
                   ckptFailed, chain, saved, saveOld, crash>>

\* process_repository: find_wallpapers and the test-mode cut.
Scan(n) ==
    /\ UNCHANGED <<probe, temp_dirs>>
    /\ pc = "cloned" /\ clone_ret = "path"
    /\ image_paths' = Candidates(n, test_mode)
    /\ attempt' = 0 /\ outcome' = "none" /\ clone_ret' = "pending"
    /\ pc' = "process"
    /\ UNCHANGED <<args, all_wallpapers, processed_hashes, start_index, idx,
                   tree, wallpapers, disk, hist>>

\* process_repository: the body of the loop over image_paths for one
\* candidate.  phash: the result of compute_perceptual_hash; emb: extract was
\* called (the hash is valid and no duplicate) and returned an embedding;
\* raised: a statement of the body raised before the record was appended, and
\* nothing else of the body is observed.
ProcessImage(phash, emb, raised) ==
    /\ UNCHANGED <<probe, temp_dirs>>
    /\ pc = "process" /\ image_paths # <<>>
    /\ emb => (phash # NoHash /\ ~is_duplicate(phash, processed_hashes))
    /\ raised => (phash = NoHash /\ ~emb)
    /\ LET img_path == Head(image_paths)
           accept == Accepts(phash, emb, raised, processed_hashes)
           st == LoopBody([image_paths |-> image_paths,
                           wallpapers |-> wallpapers,
                           processed_hashes |-> processed_hashes],
                          idx, phash, emb, raised)
       IN /\ image_paths' = st.image_paths
          /\ wallpapers' = st.wallpapers
          /\ processed_hashes' = st.processed_hashes
          /\ accepted' = IF accept
                         THEN accepted \cup {Asset(idx, img_path, phash)}
                         ELSE accepted
    /\ UNCHANGED <<pc, args, all_wallpapers, start_index, idx, attempt, outcome,
                   clone_ret, tree, disk, failedSrc, ckptFailed, chain, saved,
                   saveOld, crash>>

\* process_repository returns after the last candidate (the temporary
\* directory is removed) and main extends the accumulated list.
FinishSource ==
    /\ UNCHANGED probe
    /\ pc = "process" /\ image_paths = <<>>
    /\ all_wallpapers' = Extend(all_wallpapers, wallpapers)
    /\ temp_dirs' = LeaveSource(temp_dirs, idx)
    /\ FreshSource
    /\ pc' = "save_open"
    /\ UNCHANGED <<args, processed_hashes, start_index, idx, disk, hist>>

\* main: 'except Exception: continue' and the next iteration of the for loop,
\* which enters process_repository for the next source.  When it is
\* find_wallpapers that raised, the with block removes the directory on the
\* way out; when the removal itself raised, the directory stays.
Advance ==
    /\ idx' = NextIndex(idx)
    /\ temp_dirs' = EnterSource(IF pc = "cloned" THEN LeaveSource(temp_dirs, idx)
                                ELSE temp_dirs,
                                NextIndex(idx))
    /\ pc' = LoopPc(NextIndex(idx))
    /\ FreshSource

\* process_repository raises outside the per-image try: find_wallpapers after
\* the clone, or the removal of the temporary directory at the end of the
\* with block, after the last candidate.  main logs it and goes to the next
\* source, without extending the list and without saving a checkpoint; what
\* the candidates added to processed_hashes stays.
ProcessRaises ==
    /\ UNCHANGED probe
    /\ \/ pc = "cloned" /\ clone_ret = "path"
       \/ pc = "process" /\ image_paths = <<>>
    /\ Advance
    /\ UNCHANGED <<args, all_wallpapers, processed_hashes, start_index, disk,
                   hist>>

\* save_checkpoint: open(CHECKPOINT_PATH, 'w') truncates the file, or raises
\* and leaves it alone.
SaveOpen(ok) ==
    /\ UNCHANGED probe
    /\ pc = "save_open"
    /\ IF ok
       THEN /\ ckpt' = File(<<>>)
            /\ saveOld' = ckpt
            /\ saved' = <<>>
            /\ pc' = "save_dump"
            /\ UNCHANGED <<mem, ckptFailed, temp_dirs>>
       ELSE /\ ckptFailed' = ckptFailed \cup {idx}
            /\ Advance
            /\ UNCHANGED <<all_wallpapers, processed_hashes, start_index, ckpt,
                           saveOld, saved>>
    /\ UNCHANGED <<args, manifest, accepted, failedSrc, chain, crash>>

\* How much of document d reached the file when the write was cut short.  No
\* proper prefix of a JSON object parses, so two prefixes stand for all of
\* them: the empty file the truncation leaves, and the opening brace alone.
Cut(d, early) == IF early THEN 0 ELSE 1

\* save_checkpoint: json.dump and the close of the file.  On an I/O error the
\* file holds a proper prefix of the document (early: the shorter one) and the
\* exception goes to main.
SaveDump(ok, early) ==
    /\ UNCHANGED probe
    /\ pc = "save_dump"
    /\ ok => early
    /\ LET d == Dump(all_wallpapers, idx)
           n == Cut(d, early)
       IN IF ok
          THEN /\ ckpt' = File(d)
               /\ saved' = <<all_wallpapers, idx>>
               /\ chain' = Log(chain, [wallpapers |-> all_wallpapers,
                                        repo_index |-> idx])
               /\ UNCHANGED ckptFailed
          ELSE /\ ckpt' = File(Prefix(d, n))
               /\ ckptFailed' = ckptFailed \cup {idx}
               /\ UNCHANGED <<saved, chain>>
    /\ saveOld' = NoFile
    /\ Advance
    /\ UNCHANGED <<args, all_wallpapers, processed_hashes, start_index,
                   manifest, accepted, failedSrc, crash>>

\* main: generate_manifest and save_manifest.
BuildManifest ==
    /\ UNCHANGED <<probe, temp_dirs>>
    /\ pc = "manifest"
    /\ manifest' = generate_manifest(all_wallpapers)
    /\ pc' = "cleanup"
    /\ UNCHANGED <<args, mem, ckpt, hist>>

\* The checkpoint is left in place at the end of the run.
UnlinkMut(f) == f

\* The checkpoint file after 'if CHECKPOINT_PATH.exists(): unlink()'.
Unlink(f) == NoFile

\* main: remove the checkpoint; the pipeline is complete.
Cleanup ==
    /\ UNCHANGED <<probe, temp_dirs>>
    /\ pc = "cleanup"
    /\ ckpt' = Unlink(ckpt)
    /\ saved' = <<>>
    /\ pc' = "done"
    /\ UNCHANGED <<args, mem, manifest, accepted, failedSrc, ckptFailed, chain,
                   saveOld, crash>>

\* The process is terminated (killed, power loss, KeyboardInterrupt).  Its
\* memory is lost; the files stay as they are.  During json.dump any proper
\* prefix of the document can be what reached the file.
Crash(early) ==
    /\ UNCHANGED probe
    /\ pc \in Running
    /\ IF pc = "save_dump"
       THEN LET d == Dump(all_wallpapers, idx)
            IN ckpt' = File(Prefix(d, Cut(d, early)))
       ELSE /\ early
            /\ ckpt' = ckpt
    /\ crash' = [at |-> pc,
                 old |-> IF pc = "save_dump" THEN saveOld ELSE ckpt,
                 new |-> File(Dump(all_wallpapers, idx))]
    /\ pc' = "crashed"
    /\ all_wallpapers' = <<>> /\ processed_hashes' = {}
    /\ start_index' = 0 /\ idx' = 0
    /\ FreshSource
    /\ accepted' = {} /\ failedSrc' = {} /\ ckptFailed' = {}
    /\ temp_dirs' = {}
    /\ chain' = chain
    /\ saveOld' = NoFile
    /\ saved' = IF pc = "save_dump" THEN <<>> ELSE saved
    /\ UNCHANGED <<args, manifest>>

\* The steps of the program without abnormal termination.
Step ==
    \/ \E r \in BOOLEAN, t \in BOOLEAN : Start(r, t)
    \/ \E res \in FetchResults, left \in BOOLEAN : CloneAttempt(res, left)
    \/ CloneExhausted
    \/ SkipSource
    \/ \E n \in 0 .. MaxImages : Scan(n)
    \/ \E phash \in PHashes \cup {NoHash}, emb \in BOOLEAN, raised \in BOOLEAN :
           ProcessImage(phash, emb, raised)
    \/ FinishSource
    \/ ProcessRaises
    \/ \E ok \in BOOLEAN : SaveOpen(ok)
    \/ \E ok \in BOOLEAN, early \in BOOLEAN : SaveDump(ok, early)
    \/ BuildManifest
    \/ Cleanup

Next == Step \/ \E early \in BOOLEAN : Crash(early)

Spec == Init /\ [][Next]_vars

\* The program's steps are taken as long as one can be taken: a run goes on
\* until it completes or the process is terminated.
LiveSpec == Init /\ [][Next]_vars /\ WF_vars(Step)

\* -------------------------------------------- process_repository on its own
\* Perceptual hashes of the candidates and of the assets recorded before the
\* call: 0 and 7 differ in 3 bits, 0 and 63 in 6, 7 and 63 in 3.
ProbeHashes == {0, 7, 63}

\* What main has accepted before the call: nothing, or one asset of source 0.
PriorLists == {<<>>, <<Asset(0, 1, 0)>>}

RecsOf(assets) == [k \in 1 .. Len(assets) |-> RecOf(assets[k])]

\* The seen set is rebuilt from the assets recorded before the checkpoint.
SeenAtStartMut(prior, resumed) ==
    {prior[k].phash : k \in 1 .. Len(prior)}

\* main: processed_hashes when process_repository is called for source 1.  In
\* a run that processed source 0 itself the set holds the hashes it accepted;
\* in a run resumed from the checkpoint written after source 0 it is the set
\* load_checkpoint returned.
SeenAtStart(prior, resumed) ==
    IF resumed
    THEN load_checkpoint(File(Dump(RecsOf(prior), 0)))[3]
    ELSE {prior[k].phash : k \in 1 .. Len(prior)}

\* main: all_wallpapers at the same point.
AllAtStart(prior, resumed) ==
    IF resumed
    THEN load_checkpoint(File(Dump(RecsOf(prior), 0)))[1]
    ELSE RecsOf(prior)

\* process_repository(repo_info, processed_hashes) is entered for source 1
\* with n candidates found by find_wallpapers.
ProcCall(prior, resumed, n) ==
    /\ probe = NoProbe
    /\ probe' = [fn |-> "process_repository",
                 prior |-> prior,
                 resumed |-> resumed,
                 n |-> n,
                 scanned |-> n, test_mode |-> FALSE,
                 planned |-> FALSE, bad |-> {}, fault |-> "none",
                 all_wallpapers |-> AllAtStart(prior, resumed),
                 seen0 |-> SeenAtStart(prior, resumed),
                 image_paths |-> Candidates(n, FALSE),
                 wallpapers |-> <<>>,
                 processed_hashes |-> SeenAtStart(prior, resumed),
                 trail |-> <<>>,
                 returned |-> "no"]
    /\ UNCHANGED pipeline

\* Perceptual hashes of images that are pairwise no duplicates: any two
\* differ in 8 bits.
SampleHashes ==
    <<43690, 52428, 26214, 61680, 23130, 15420, 38550, 65280, 21930, 13260,
      39270, 4080, 42330, 49980, 27030>>

\* What can go wrong with a candidate: compute_perceptual_hash returns None,
\* the image is a copy of the first candidate, no embedding, or a statement
\* of the loop body raises.
Faults == {"nohash", "dup", "noemb", "raises"}

\* The candidates something can go wrong with: one early, the last one
\* test mode keeps and the first one it drops.
FaultyAt == SUBSET {2, TEST_LIMIT, TEST_LIMIT + 1}

\* compute_perceptual_hash, extractor.extract and the rest of the body for
\* candidate k of a call that follows a plan: <<phash, emb, raised>>.
PlannedInput(k, bad, fault) ==
    IF k \notin bad THEN <<SampleHashes[k], TRUE, FALSE>>
    ELSE IF fault = "nohash" THEN <<NoHash, FALSE, FALSE>>
    ELSE IF fault = "dup" THEN <<SampleHashes[1], TRUE, FALSE>>
    ELSE IF fault = "noemb" THEN <<SampleHashes[k], FALSE, FALSE>>
    ELSE <<SampleHashes[k], TRUE, TRUE>>

\* process_repository is entered for source 1 of a fresh run, with or
\* without the test flag; find_wallpapers returns n candidates, of which
\* those in bad have the fault.
ProcCallPlanned(n, t, bad, fault) ==
    /\ probe = NoProbe
    /\ probe' = [fn |-> "process_repository",
                 prior |-> <<>>,
                 resumed |-> FALSE,
                 n |-> Len(Candidates(n, t)),
                 scanned |-> n, test_mode |-> t,
                 planned |-> TRUE, bad |-> bad, fault |-> fault,
                 all_wallpapers |-> <<>>,
                 seen0 |-> {},
                 image_paths |-> Candidates(n, t),
                 wallpapers |-> <<>>,
                 processed_hashes |-> {},
                 trail |-> <<>>,
                 returned |-> "no"]
    /\ UNCHANGED pipeline

\* One iteration of the loop over image_paths.  emb is read only when the
\* candidate has a hash; a statement after the extraction is the one that can
\* raise (the functions called before it catch their own exceptions).
ProcImage(phash, emb, raised) ==
    /\ probe.fn = "process_repository"
    /\ probe.returned = "no"
    /\ probe.image_paths # <<>>
    /\ IF probe.planned
       THEN <<phash, emb, raised>> =
                PlannedInput(Head(probe.image_paths), probe.bad, probe.fault)
       ELSE /\ phash \in ProbeHashes \cup {NoHash}
            /\ emb => phash # NoHash
            /\ raised => emb
    /\ LET st == LoopBody([image_paths |-> probe.image_paths,
                           wallpapers |-> probe.wallpapers,
                           processed_hashes |-> probe.processed_hashes],
                          1, phash, emb, raised)
           e == [path |-> Head(probe.image_paths),
                 phash |-> phash, emb |-> emb, raised |-> raised,
                 seen_before |-> probe.processed_hashes,
                 seen_after |-> st.processed_hashes,
                 recs_before |-> probe.wallpapers,
                 recs_after |-> st.wallpapers,
                 is_duplicate |-> st.is_duplicate,
                 extract_called |-> st.extract_called]
       IN probe' = [probe EXCEPT !.image_paths = st.image_paths,
                                 !.wallpapers = st.wallpapers,
                                 !.processed_hashes = st.processed_hashes,
                                 !.trail = Append(@, e)]
    /\ UNCHANGED pipeline

\* One iteration of the loop in a call that follows a plan.
ProcImagePlanned ==
    /\ probe.fn = "process_repository" /\ probe.planned
    /\ probe.image_paths # <<>>
    /\ LET x == PlannedInput(Head(probe.image_paths), probe.bad, probe.fault)
       IN ProcImage(x[1], x[2], x[3])

\* The loop is over: the with block is left and wallpapers is returned, or
\* the removal of the scratch directory raises.
ProcReturn(ok) ==
    /\ probe.fn = "process_repository"
    /\ probe.returned = "no"
    /\ probe.image_paths = <<>>
    /\ probe' = [probe EXCEPT !.returned = IF ok THEN "value" ELSE "raised"]
    /\ UNCHANGED pipeline

\* ------------------------------------------------ the duplicate test on its own
HashValues == 0 .. (2 ^ HashBits - 1)

\* The duplicate loop of process_repository for the candidate hash a against
\* a seen set holding b alone, and for b against a.
DistanceCall(a, b) ==
    /\ probe = NoProbe
    /\ probe' = [fn |-> "is_duplicate", a |-> a, b |-> b,
                 d_ab |-> Hamming(a, b), d_ba |-> Hamming(b, a),
                 dup_ab |-> is_duplicate(a, {b}),
                 dup_ba |-> is_duplicate(b, {a})]
    /\ UNCHANGED pipeline

\* ------------------------------------------------------- detect_category
\* Strings are sequences of characters.  CATEGORY_KEYWORDS, in the order of
\* the dict literal, which is the order detect_category iterates it in.
CATEGORY_KEYWORDS ==
    <<
    [category |-> "nature",
     keywords |-> <<
           <<"n", "a", "t", "u", "r", "e">>,
           <<"l", "a", "n", "d", "s", "c", "a", "p", "e">>,
           <<"f", "o", "r", "e", "s", "t">>,
           <<"m", "o", "u", "n", "t", "a", "i", "n">>,
           <<"o", "c", "e", "a", "n">>,
           <<"s", "u", "n", "s", "e", "t">>,
           <<"s", "u", "n", "r", "i", "s", "e">>,
           <<"s", "k", "y">>>>],
    [category |-> "minimal",
     keywords |-> <<
           <<"m", "i", "n", "i", "m", "a", "l">>,
           <<"m", "i", "n", "i", "m", "a", "l", "i", "s", "t">>,
           <<"s", "i", "m", "p", "l", "e">>,
           <<"c", "l", "e", "a", "n">>>>],
    [category |-> "dark",
     keywords |-> <<
           <<"d", "a", "r", "k">>,
           <<"b", "l", "a", "c", "k">>,
           <<"n", "i", "g", "h", "t">>,
           <<"m", "o", "o", "d", "y">>>>],
    [category |-> "abstract",
     keywords |-> <<
           <<"a", "b", "s", "t", "r", "a", "c", "t">>,
           <<"g", "e", "o", "m", "e", "t", "r", "i", "c">>,
           <<"p", "a", "t", "t", "e", "r", "n">>,
           <<"a", "r", "t">>>>],
    [category |-> "anime",
     keywords |-> <<
           <<"a", "n", "i", "m", "e">>,
           <<"m", "a", "n", "g", "a">>,
           <<"w", "a", "i", "f", "u">>,
           <<"c", "h", "a", "r", "a", "c", "t", "e", "r">>>>],
    [category |-> "gruvbox",
     keywords |-> <<
           <<"g", "r", "u", "v", "b", "o", "x">>>>],
    [category |-> "nord",
     keywords |-> <<
           <<"n", "o", "r", "d">>,
           <<"n", "o", "r", "d", "i", "c">>>>],
    [category |-> "city",
     keywords |-> <<
           <<"c", "i", "t", "y">>,
           <<"u", "r", "b", "a", "n">>,
           <<"b", "u", "i", "l", "d", "i", "n", "g">>,
           <<"s", "t", "r", "e", "e", "t">>>>],
    [category |-> "space",
     keywords |-> <<
           <<"s", "p", "a", "c", "e">>,
           <<"p", "l", "a", "n", "e", "t">>,
           <<"g", "a", "l", "a", "x", "y">>,
           <<"s", "t", "a", "r">>,
           <<"n", "e", "b", "u", "l", "a">>>>],
    [category |-> "gradient",
     keywords |-> <<
           <<"g", "r", "a", "d", "i", "e", "n", "t">>,
           <<"c", "o", "l", "o", "r">>>>],
    [category |-> "gaming",
     keywords |-> <<
           <<"g", "a", "m", "e">>,
           <<"g", "a", "m", "i", "n", "g">>,
           <<"c", "y", "b", "e", "r", "p", "u", "n", "k">>>>]
    >>

UpperCase == <<"A", "B", "C", "D", "E", "F", "G", "H", "I", "J", "K", "L", "M", "N", "O", "P", "Q", "R", "S", "T", "U", "V", "W", "X", "Y", "Z">>
LowerCase == <<"a", "b", "c", "d", "e", "f", "g", "h", "i", "j", "k", "l", "m", "n", "o", "p", "q", "r", "s", "t", "u", "v", "w", "x", "y", "z">>

\* str.lower() on one character and on a string.
LowerChar(c) ==
    IF \E i \in 1 .. Len(UpperCase) : UpperCase[i] = c
    THEN LowerCase[CHOOSE i \in 1 .. Len(UpperCase) : UpperCase[i] = c]
    ELSE c

lower(str) == [i \in 1 .. Len(str) |-> LowerChar(str[i])]

\* keyword in path_str
Contains(keyword, str) ==
    \E i \in 0 .. (Len(str) - Len(keyword)) :
        SubSeq(str, i + 1, i + Len(keyword)) = keyword

\* The categories with a keyword that occurs in path_str.
Matching(path_str) ==
    {i \in 1 .. Len(CATEGORY_KEYWORDS) :
        \E k \in 1 .. Len(CATEGORY_KEYWORDS[i].keywords) :
            Contains(CATEGORY_KEYWORDS[i].keywords[k], path_str)}

\* The repo-specific defaults of detect_category.
RepoDefault(repo_name) ==
    IF Contains(<<"m", "i", "n", "i", "m", "a", "l">>, lower(repo_name)) THEN "minimal"
    ELSE IF Contains(<<"n", "o", "r", "d", "i", "c">>, lower(repo_name)) THEN "nord"
    ELSE IF Contains(<<"a", "e", "s", "t", "h", "e", "t", "i", "c">>, lower(repo_name)) THEN "aesthetic"
    ELSE "other"

\* The repo-specific default is taken before the keywords are looked at.
detect_categoryMut(file_path, repo_name) ==
    LET hits == Matching(lower(file_path))
    IN IF RepoDefault(repo_name) # "other" THEN RepoDefault(repo_name)
       ELSE IF hits # {}
       THEN CATEGORY_KEYWORDS[CHOOSE i \in hits : \A j \in hits : i <= j].category
       ELSE "other"

detect_category(file_path, repo_name) ==
    LET hits == Matching(lower(file_path))
    IN IF hits # {}
       THEN CATEGORY_KEYWORDS[CHOOSE i \in hits : \A j \in hits : i <= j].category
       ELSE RepoDefault(repo_name)

\* Fragments the relative paths of the calls are made of: names without a
\* keyword, names with one in either case, a name in which a keyword of an
\* earlier category lies inside a keyword of a later one ("star"), and
\* directories.
PathParts ==
    {<<"i", "m", "g", "/">>,
     <<"x", "1", ".", "p", "n", "g">>,
     <<"a", "/">>,
     <<"D", "a", "r", "k">>,
     <<"s", "t", "a", "r">>,
     <<"s", "k", "y">>,
     <<"N", "o", "r", "d", "i", "c">>,
     <<"w", "a", "l", "l", "s">>}

\* Largest number of fragments of a path.
MaxParts == 2

RECURSIVE Concat(_)
Concat(parts) ==
    IF parts = <<>> THEN <<>> ELSE Head(parts) \o Concat(Tail(parts))

Paths ==
    {Concat(parts) :
        parts \in UNION {[1 .. n -> PathParts] : n \in 0 .. MaxParts}}

\* repo['name'] of the sources of the calls.
RepoNames ==
    {<<"E", "x", "a", "m", "p", "l", "e", "O", "r", "g", "/", "m", "i", "n", "i", "m", "a", "l", "-", "w", "a", "l", "l", "p", "a", "p", "e", "r", "s">>,
     <<"a", "c", "m", "e", "/", "N", "o", "r", "d", "i", "c", "-", "W", "a", "l", "l", "s">>,
     <<"a", "c", "m", "e", "/", "a", "e", "s", "t", "h", "e", "t", "i", "c">>,
     <<"a", "c", "m", "e", "/", "w", "a", "l", "l", "s">>,
     <<"a", "c", "m", "e", "/", "M", "i", "n", "i", "m", "a", "l", "-", "n", "o", "r", "d", "i", "c">>}

\* detect_category(relative_path, repo['name'])
CategoryCall(file_path, repo_name) ==
    /\ probe' = [fn |-> "detect_category",
                 file_path |-> file_path, repo_name |-> repo_name,
                 result |-> detect_category(file_path, repo_name)]
    /\ UNCHANGED pipeline

\* ------------------------------------------------- generate_wallpaper_id
Digits == <<"0", "1", "2", "3", "4", "5", "6", "7", "8", "9">>
HexDigits == <<"0", "1", "2", "3", "4", "5", "6", "7", "8", "9", "a", "b", "c", "d", "e", "f">>
Punctuation == <<"/", "-", "_", ".">>
\* The characters of the strings of the model, in the place of their codes.
Alphabet == LowerCase \o UpperCase \o Digits \o Punctuation

Code(c) == CHOOSE i \in 1 .. Len(Alphabet) : Alphabet[i] = c

\* Number of hexadecimal digits kept of the digest (hexdigest()[:12] in the
\* program).
DigestDigits == 3

\* hashlib.md5(bytes): a function of the bytes alone, here a polynomial over
\* the character codes in the width of the digits kept.
RECURSIVE Digest(_, _)
Digest(acc, str) ==
    IF str = <<>> THEN acc
    ELSE Digest((acc * 31 + Code(Head(str))) % (16 ^ DigestDigits), Tail(str))

\* hexdigest()[:12]
Hex(n) ==
    [i \in 1 .. DigestDigits |->
        HexDigits[((n \div (16 ^ (DigestDigits - i))) % 16) + 1]]

\* repo_name.split('/')[0]
RECURSIVE FirstField(_)
FirstField(str) ==
    IF str = <<>> \/ Head(str) = "/" THEN <<>>
    ELSE <<Head(str)>> \o FirstField(Tail(str))

\* .replace('-', '').replace('_', '')
Strip(str) == SelectSeq(str, LAMBDA c : c \notin {"-", "_"})

\* str[:n]
Take(str, n) == Prefix(str, Min(n, Len(str)))

\* The identifier carries the number of calls made before this one.
generate_wallpaper_idMut(repo_name, relative_path) ==
    Take(Strip(FirstField(repo_name)), 8) \o <<"_">>
        \o Hex(IF probe.fn = "generate_wallpaper_id" THEN 1 ELSE 0)

generate_wallpaper_id(repo_name, relative_path) ==
    LET hash_input == repo_name \o <<"/">> \o relative_path
        hash_hex == Hex(Digest(0, hash_input))
        repo_short == Take(Strip(FirstField(repo_name)), 8)
    IN repo_short \o <<"_">> \o hash_hex

\* str(relative_path) of the candidates the identifier is generated for.
IdPaths ==
    {Concat(<<a, b>>) :
        a \in {<<>>, <<"a", "/">>},
        b \in {<<"x", "1", ".", "p", "n", "g">>, <<"D", "a", "r", "k">>}}

\* The state of the run in which process_repository makes the call: a fresh
\* or a resumed run, and the index of the source.
RunStates == [resumed : BOOLEAN, repo_index : Repos]

\* wallpaper_id = generate_wallpaper_id(repo['name'], str(relative_path))
IdCall(repo_name, relative_path, state) ==
    /\ probe' = [fn |-> "generate_wallpaper_id",
                 first |-> [repo_name |-> repo_name,
                            relative_path |-> relative_path,
                            state |-> state,
                            id |-> generate_wallpaper_id(repo_name, relative_path)],
                 again |-> FALSE]
    /\ UNCHANGED pipeline

\* A later call, in any state of the same or of another run.
IdCallAgain(repo_name, relative_path, state) ==
    /\ probe.fn = "generate_wallpaper_id" /\ ~probe.again
    /\ probe' = [fn |-> "generate_wallpaper_id",
                 first |-> probe.first,
                 again |-> TRUE,
                 second |-> [repo_name |-> repo_name,
                             relative_path |-> relative_path,
                             state |-> state,
                             id |-> generate_wallpaper_id(repo_name, relative_path)]]
    /\ UNCHANGED pipeline

\* ----------------------------------------------------------- save_manifest
\* json.dump(manifest, f, indent=2): the text of the document, one member or
\* one record per line; "NL" is the newline character of the text.
JsonRecord(w) == <<"r", Digits[w.repo + 1], Digits[w.path + 1], "NL">>

RECURSIVE JsonRecords(_)
JsonRecords(ws) ==
    IF ws = <<>> THEN <<>> ELSE JsonRecord(Head(ws)) \o JsonRecords(Tail(ws))

Serialize(m) ==
    <<"{", "NL", "n", Digits[m.total_wallpapers + 1], "NL">>
        \o JsonRecords(m.wallpapers) \o <<"}">>

JsonChars == <<"{", "}", "n", "r">> \o Digits

\* open(MANIFEST_PATH, 'w'): the bytes a text file receives; a newline is
\* written as the platform's line separator (LF, or CR LF).
RECURSIVE WriteText(_, _)
WriteText(text, crlf) ==
    IF text = <<>> THEN <<>>
    ELSE (IF Head(text) = "NL"
          THEN (IF crlf THEN <<13, 10>> ELSE <<10>>)
          ELSE <<32 + (CHOOSE i \in 1 .. Len(JsonChars) : JsonChars[i] = Head(text))>>)
         \o WriteText(Tail(text), crlf)

\* The compressed copy is made from the document serialized once more, with
\* LF newlines.
f_inMut(m, file) == WriteText(Serialize(m), FALSE)

\* open(MANIFEST_PATH, 'rb'): the source of the copy is the file just written.
f_in(m, file) == file

\* gzip: a lossless coding of a byte sequence, here as runs <<byte, length>>.
RECURSIVE Compress(_)
Compress(bytes) ==
    IF bytes = <<>> THEN <<>>
    ELSE LET rest == Compress(Tail(bytes))
         IN IF rest # <<>> /\ rest[1][1] = Head(bytes)
            THEN <<<<Head(bytes), rest[1][2] + 1>>>> \o Tail(rest)
            ELSE <<<<Head(bytes), 1>>>> \o rest

RECURSIVE Decompress(_)
Decompress(runs) ==
    IF runs = <<>> THEN <<>>
    ELSE [k \in 1 .. runs[1][2] |-> runs[1][1]] \o Decompress(Tail(runs))

\* save_manifest(manifest) up to the end of the with block that writes the
\* plain file; the records of the manifest are n candidates of one source.
SaveManifestPlain(n, crlf, ok) ==
    /\ LET m == generate_manifest([k \in 1 .. n |-> Rec(1, k)])
           bytes == WriteText(Serialize(m), crlf)
       IN probe' = [fn |-> "save_manifest",
                    manifest |-> m,
                    crlf |-> crlf,
                    plain |-> IF ok THEN bytes ELSE Prefix(bytes, Len(bytes) \div 2),
                    gz |-> <<>>,
                    gz_exists |-> FALSE,
                    returned |-> IF ok THEN "no" ELSE "raised"]
    /\ UNCHANGED pipeline

\* The copy into manifest.json.gz, complete or cut short by an error of the
\* write, and the return.
SaveManifestGzip(ok) ==
    /\ probe.fn = "save_manifest" /\ probe.returned = "no"
    /\ LET runs == Compress(f_in(probe.manifest, probe.plain))
       IN probe' = [probe EXCEPT
                       !.gz = IF ok THEN runs ELSE Prefix(runs, Len(runs) \div 2),
                       !.gz_exists = TRUE,
                       !.returned = IF ok THEN "value" ELSE "raised"]
    /\ UNCHANGED pipeline

\* ------------------------------------------- the metadata of one candidate
\* What the image file yields to each of the four metadata functions: the
\* value the function computes (the palette of the k-means clusters, the
\* mean luma scaled to 0..100, the scaled standard deviation, the size in
\* pixels), or that its body raises.
Palette == <<"#282828", "#cc241d", "#98971a", "#d79921", "#458588">>
Raises == -1
NoSize == <<>>

Images ==
    [colors : {"raises", "ok"},
     brightness : {Raises, 0, 73},
     contrast : {Raises, 20, 100},
     size : {NoSize, <<800, 600>>, <<1920, 1080>>}]

\* A failed colour extraction yields no colours.
extract_colorsMut(img, num_colors) ==
    IF img.colors = "raises" THEN <<>> ELSE Palette

\* extract_colors(image_path, num_colors=5)
extract_colors(img, num_colors) ==
    IF img.colors = "raises" THEN [k \in 1 .. num_colors |-> "#000000"]
    ELSE Palette

\* calculate_brightness
calculate_brightness(img) ==
    IF img.brightness = Raises THEN 50 ELSE img.brightness

\* calculate_contrast: min(contrast, 100)
calculate_contrast(img) ==
    IF img.contrast = Raises THEN 50 ELSE Min(img.contrast, 100)

\* str(n) for a natural number.
RECURSIVE Decimal(_)
Decimal(n) ==
    IF n < 10 THEN <<Digits[n + 1]>>
    ELSE Decimal(n \div 10) \o <<Digits[(n % 10) + 1]>>

\* get_image_resolution: f"{img.width}x{img.height}", or "unknown".
get_image_resolution(img) ==
    IF img.size = NoSize THEN <<"u", "n", "k", "n", "o", "w", "n">>
    ELSE Decimal(img.size[1]) \o <<"x">> \o Decimal(img.size[2])

\* process_repository: wallpaper_data for a candidate whose embedding was
\* extracted (the fields the four functions fill).
wallpaper_data(img) ==
    [colors |-> extract_colors(img, 5),
     brightness |-> calculate_brightness(img),
     contrast |-> calculate_contrast(img),
     resolution |-> get_image_resolution(img)]

\* process_repository from the colour extraction to wallpapers.append, for
\* one candidate, on an empty list.
MetadataCall(img) ==
    /\ probe' = [fn |-> "wallpaper_data", img |-> img,
                 wallpapers |-> Append(<<>>, wallpaper_data(img))]
    /\ UNCHANGED pipeline

\* --------------------------------------------------------- find_wallpapers
\* SUPPORTED_EXTENSIONS = {'.jpg', '.jpeg', '.png', '.webp'}
SUPPORTED_EXTENSIONS == {<<".", "j", "p", "g">>, <<".", "j", "p", "e", "g">>, <<".", "p", "n", "g">>, <<".", "w", "e", "b", "p">>}

\* A file with a supported extension, within the size limit, that opens as
\* an image of 1920 x 1080, and the ways a file differs from it: the
\* extension in another case or unsupported, one byte over the limit or
\* exactly at it, not an image, one pixel too narrow or too low, or exactly
\* the smallest size.
GoodFile == [suffix |-> <<".", "j", "p", "g">>, st_size |-> 1000, image |-> <<1920, 1080>>]

FileKinds ==
    {[GoodFile EXCEPT !.suffix = x] : x \in {<<".", "j", "p", "g">>, <<".", "J", "P", "G">>, <<".", "P", "n", "g">>, <<".", "w", "e", "b", "p">>, <<".", "t", "x", "t">>}}
    \cup {[GoodFile EXCEPT !.st_size = x] : x \in {MAX_FILE_SIZE, MAX_FILE_SIZE + 1}}
    \cup {[GoodFile EXCEPT !.image = x] :
              x \in {NoSize, <<MIN_WIDTH - 1, MIN_HEIGHT>>,
                     <<MIN_WIDTH, MIN_HEIGHT - 1>>, <<MIN_WIDTH, MIN_HEIGHT>>}}

\* The trees: file number k of the tree, in the order the directory walk of
\* rglob yields the files of this tree.
Trees == [1 .. MaxFiles -> FileKinds]

\* The orders in which 'for ext in SUPPORTED_EXTENSIONS' can go through the
\* set: the iteration order of a set of str follows the hashes of the
\* strings, which are salted per process.  Two of the orders stand for all.
ExtOrders ==
    {o \in {<<<<".", "j", "p", "g">>, <<".", "j", "p", "e", "g">>,
               <<".", "p", "n", "g">>, <<".", "w", "e", "b", "p">>>>,
             <<<<".", "w", "e", "b", "p">>, <<".", "p", "n", "g">>,
               <<".", "j", "p", "e", "g">>, <<".", "j", "p", "g">>>>} :
        Range(o) = SUPPORTED_EXTENSIONS}

\* The pattern "*" + ext of Path.rglob against a file name: pathlib matches
\* case-sensitively on POSIX and case-insensitively on Windows.
GlobMatch(ext, suffix, posix) ==
    IF posix THEN suffix = ext ELSE lower(suffix) = ext

\* repo_path.rglob(f"*{ext}"): the numbers of the matching files.
rglob(files, ext, posix) ==
    SelectSeq([k \in 1 .. Len(files) |-> k],
              LAMBDA k : GlobMatch(ext, files[k].suffix, posix))

RECURSIVE Collect(_, _, _)
Collect(files, exts, posix) ==
    IF exts = <<>> THEN <<>>
    ELSE rglob(files, Head(exts), posix) \o Collect(files, Tail(exts), posix)

\* 'if img_path.stat().st_size > MAX_FILE_SIZE: continue'
WithinSize(f) == f.st_size <= MAX_FILE_SIZE

\* find_wallpapers(repo_path): the candidates, as file numbers; ext_order is
\* the order of 'for ext in SUPPORTED_EXTENSIONS'.
find_wallpapers(files, ext_order, posix) ==
    LET found == Collect(files, ext_order, posix)
    IN SelectSeq(found,
                 LAMBDA k : /\ WithinSize(files[k])
                            /\ files[k].image # NoSize
                            /\ files[k].image[1] >= MIN_WIDTH
                            /\ files[k].image[2] >= MIN_HEIGHT)

\* find_wallpapers is called on a tree, in a process whose set iteration
\* order is ext_order.
ScanCall(files, ext_order, posix) ==
    /\ probe' = [fn |-> "find_wallpapers", tree |-> files, posix |-> posix,
                 ext_order |-> ext_order,
                 result |-> find_wallpapers(files, ext_order, posix),
                 again |-> FALSE, ext_order2 |-> <<>>, result2 |-> <<>>]
    /\ UNCHANGED pipeline

\* The same tree is scanned once more, in the same or in another process.
ScanAgain(ext_order) ==
    /\ probe.fn = "find_wallpapers" /\ ~probe.again
    /\ probe' = [probe EXCEPT
                    !.again = TRUE,
                    !.ext_order2 = ext_order,
                    !.result2 = find_wallpapers(probe.tree, ext_order,
                                                probe.posix)]
    /\ UNCHANGED pipeline

\* ---------------------------------------------------------- load_checkpoint
\* Record lists a checkpoint can hold: up to two records, of different
\* sources.
SavedLists ==
    {<<>>} \cup {<<Rec(i, 1)>> : i \in Repos}
           \cup {<<Rec(p[1], 1), Rec(p[2], 1)>> :
                     p \in {q \in Repos \X Repos : q[1] < q[2]}}

\* The documents save_checkpoint writes.
SavedDocs == {Dump(ws, i) : ws \in SavedLists, i \in Repos}

\* The files load_checkpoint can find: none, a document save_checkpoint
\* wrote or what a save cut short at any point left of it, and a file with
\* other JSON content.
CheckpointFiles ==
    {NoFile, File(<<TNull>>)}
    \cup UNION {{File(Take(d, n)) : n \in 0 .. Len(d)} : d \in SavedDocs}

\* main: the sources of 'enumerate(REPOSITORIES[start_index:],
\* start=start_index)', in the order of the loop.
LoopSources(i) ==
    IF i >= NumRepos THEN <<>> ELSE [k \in 1 .. (NumRepos - i) |-> i + k - 1]

\* load_checkpoint() is called on file f, as main calls it for --resume;
\* resumed is what main then starts from, fresh what it starts from without
\* the flag.
LoadCall(f, readable) ==
    /\ probe' = [fn |-> "load_checkpoint", f |-> f, readable |-> readable,
                 raised |-> LoadOutcome(f, readable).raised,
                 value |-> LoadOutcome(f, readable).value,
                 resumed |-> InitialState(TRUE, f, readable).value,
                 fresh |-> InitialState(FALSE, f, readable).value,
                 sources |-> LoopSources(InitialState(TRUE, f, readable).value[2])]
    /\ UNCHANGED pipeline

\* A function is called on its own only from the initial state.
Uncalled == probe = NoProbe

FnNext ==
    \/ Uncalled /\ \E a \in HashValues, b \in HashValues : DistanceCall(a, b)
    \/ Uncalled /\ \E file_path \in Paths, repo_name \in RepoNames :
                       CategoryCall(file_path, repo_name)
    \/ Uncalled /\ \E repo_name \in RepoNames, relative_path \in IdPaths,
                       state \in RunStates :
                       IdCall(repo_name, relative_path, state)
    \/ \E repo_name \in RepoNames, relative_path \in IdPaths,
          state \in RunStates : IdCallAgain(repo_name, relative_path, state)
    \/ Uncalled /\ \E n \in 0 .. MaxCand, crlf \in BOOLEAN, ok \in BOOLEAN :
                       SaveManifestPlain(n, crlf, ok)
    \/ \E ok \in BOOLEAN : SaveManifestGzip(ok)
    \/ Uncalled /\ \E img \in Images : MetadataCall(img)
    \/ Uncalled /\ \E f \in CheckpointFiles, readable \in BOOLEAN :
                       LoadCall(f, readable)
    \/ Uncalled /\ \E files \in Trees, ext_order \in ExtOrders, posix \in BOOLEAN :
                       ScanCall(files, ext_order, posix)
    \/ \E ext_order \in ExtOrders : ScanAgain(ext_order)
    \/ \E prior \in PriorLists, resumed \in BOOLEAN, n \in 0 .. MaxCand :
           ProcCall(prior, resumed, n)
    \/ Uncalled /\ \E n \in TEST_LIMIT - 1 .. MaxScan, t \in BOOLEAN,
                      bad \in FaultyAt, fault \in Faults :
                       ProcCallPlanned(n, t, bad, fault)
    \/ \E phash \in ProbeHashes \cup {NoHash}, emb \in BOOLEAN,
          raised \in BOOLEAN : ProcImage(phash, emb, raised)
    \/ ProcImagePlanned
    \/ \E ok \in BOOLEAN : ProcReturn(ok)

\* The functions of the program called on their own, from the initial state.
FnSpec == Init /\ [][FnNext]_vars

\* ------------------------------------------------------------------- claims
Saving == {"save_open", "save_dump"}
Acquiring == {"clone", "cloned", "process"}

\* C1: a run of a lineage acquires and processes only sources after k, the
\* last completed source index that the latest completely written checkpoint
\* of the lineage recorded: it starts at k + 1 and never goes back to a source
\* up to k.
C1_NoReprocessing ==
    (pc \in Acquiring /\ chain # <<>>) => idx > chain[Len(chain)].repo_index

\* C2: if the process terminates during save_checkpoint, the checkpoint file
\* is the complete previous checkpoint or the complete new one.
C2_AtomicSave ==
    (pc = "crashed" /\ crash.at \in Saving) => ckpt \in {crash.old, crash.new}

C4_LineageSuperset ==
    [][(chain # <<>> /\ chain' # <<>> /\ chain' # chain) =>
           Range(chain[1].wallpapers) \subseteq Range(chain'[1].wallpapers)]_vars

\* C5: a source whose acquisition returned failure is skipped: the run goes
\* on past it (it is only ever left through the checkpoint save, to the next
\* index) and builds the manifest only when the loop has been through every
\* source, and neither the accumulated list nor the final manifest holds a
\* record of it.
C5_FailedSourceSkipped ==
    \A j \in failedSrc :
        /\ idx > j \/ (idx = j /\ pc \in Saving)
        /\ pc \in {"manifest", "cleanup", "done"} => idx = NumRepos
        /\ \A r \in Range(all_wallpapers) : r.repo # j
        /\ pc \in {"cleanup", "done"} =>
               /\ manifest.exists
               /\ \A r \in Range(manifest.wallpapers) : r.repo # j

C5_Witness ==
    /\ pc = "done"
    /\ 0 \in failedSrc
    /\ \E r \in Range(manifest.wallpapers) : r.repo > 0

\* C6: a run, fresh or resumed, that is not terminated from outside reaches
\* the completed state, whatever fails on the way.
C6_RunCompletes == (pc \in Running) ~> (pc \in {"done", "crashed"})

C6_Witness ==
    /\ pc = "done"
    /\ start_index > 0
    /\ failedSrc # {}
    /\ ckptFailed # {}

\* C7: after an attempt that failed for a reason that is neither a network
\* error nor a timeout, clone_repository has returned failure: it makes no
\* further attempt.  Stated for the claim's own example of such a failure,
\* git refusing the fetch (authentication, unknown ref), in either mode.
C7_NoRetryOfPermanentFailure ==
    outcome = "auth" => (pc = "cloned" /\ clone_ret = "none")

\* C8: at most max_retries attempts are made for a source; a network error or
\* timeout before the last attempt is followed by another attempt; a
\* successful attempt ends the loop with the path; a transient failure makes
\* clone_repository return failure only when it was the last attempt.
C8_BoundedRetry ==
    /\ attempt <= max_retries
    /\ (outcome \in Transient /\ attempt < max_retries) =>
           (pc = "clone" /\ clone_ret = "pending")
    /\ outcome = "ok" => (pc = "cloned" /\ clone_ret = "path")
    /\ (outcome \in Transient /\ clone_ret = "none") => attempt = max_retries
    /\ (pc = "cloned" /\ outcome # "ok") => clone_ret = "none"

C8_Witness ==
    /\ pc = "cloned"
    /\ attempt = max_retries
    /\ outcome = "network"
    /\ clone_ret = "none"

\* C9: once the run is complete the checkpoint file does not exist, so a
\* checkpoint file that a run finds when it starts was left by a run that did
\* not complete.
C9_CheckpointGone ==
    /\ pc = "done" => ~ckpt.exists
    /\ (pc \in Stopped /\ ckpt.exists) => pc = "crashed"

C9_Witness ==
    /\ pc = "done"
    /\ manifest.exists
    /\ chain # <<>>

\* C10: when the save after source k raised, the run has gone on past k, and
\* every record accepted from k is in the accumulated list and, once the
\* manifest is written, in the manifest.
C10_SaveFailureTolerated ==
    \A k \in ckptFailed :
        /\ idx > k
        /\ \A a \in accepted :
               a.repo = k =>
                   /\ RecOf(a) \in Range(all_wallpapers)
                   /\ pc \in {"cleanup", "done"} =>
                          RecOf(a) \in Range(manifest.wallpapers)

C10_Witness ==
    /\ pc = "done"
    /\ \E r \in accepted : r.repo = 0 /\ 0 \in ckptFailed
    /\ idx = NumRepos

\* The records of the run's output so far: the accumulated list and the list
\* of the source being processed.
Output == Range(all_wallpapers) \cup Range(wallpapers)

\* C18: the seen set is exactly the set of perceptual hashes of the assets the
\* run has accepted and that are in its output, across all sources processed
\* so far.
C18_SeenSetExact ==
    processed_hashes = {a.phash : a \in {b \in accepted : RecOf(b) \in Output}}

\* C14: in the manifest generate_manifest produced, total_wallpapers is the
\* length of the record list, and the record list is the accumulated list it
\* was handed (which main still holds while the process lives).
C14_ManifestCount ==
    manifest.exists =>
        /\ manifest.total_wallpapers = Len(manifest.wallpapers)
        /\ pc \in {"cleanup", "done"} => manifest.wallpapers = all_wallpapers

C14_Witness ==
    /\ manifest.exists
    /\ start_index > 0
    /\ manifest.total_wallpapers = NumRepos * MaxImages

\* The file holds a complete checkpoint with the records ws and the index i.
HoldsCheckpoint(f, ws, i) ==
    /\ f.exists
    /\ WellFormed(f.data)
    /\ ParseWallpapers(f.data) = ws
    /\ ParseIndex(f.data) = i

C22_NoPartialTree ==
    /\ (pc = "clone" /\ attempt > 0 /\ outcome = "timeout") => ~tree
    /\ (pc = "cloned" /\ clone_ret = "none") => ~tree

Ordered(ws) ==
    \A i \in 1 .. Len(ws), j \in 1 .. Len(ws) :
        i < j => \/ ws[i].repo < ws[j].repo
                 \/ ws[i].repo = ws[j].repo /\ ws[i].path < ws[j].path

NoRepeat(ws) == \A j, k \in 1 .. Len(ws) : ws[j] = ws[k] => j = k

\* C30: whatever crashes and resumed runs came before, the output list and
\* the manifest hold no record twice, this run accepts assets only of the
\* sources from its start index on, and every record the list holds of such
\* a source was accepted by this run, none restored from the checkpoint.
C30_NoSourceTwice ==
    /\ NoRepeat(all_wallpapers)
    /\ manifest.exists => NoRepeat(manifest.wallpapers)
    /\ \A a \in accepted : a.repo >= start_index
    /\ \A k \in 1 .. Len(all_wallpapers) :
           all_wallpapers[k].repo >= start_index =>
               \E a \in accepted : /\ a.repo = all_wallpapers[k].repo
                                    /\ a.path = all_wallpapers[k].path

\* A run that resumed after a crash has written its manifest: it holds the
\* restored records of source 0 and the records this run made of source 1.
C30_Witness ==
    /\ pc = "done" /\ manifest.exists /\ start_index = 1
    /\ \E j, k \in 1 .. Len(manifest.wallpapers) :
           /\ manifest.wallpapers[j].repo = 0
           /\ manifest.wallpapers[k].repo = 1
           /\ \E a \in accepted : a.repo = 1

\* ----------------------------------------------------- claims on FnSpec
InProc == probe.fn = "process_repository"

\* A seen hash within the threshold of the candidate's hash.
NearSeen(e) ==
    \E h \in e.seen_before :
        /\ Hamming(e.phash, h) <= 5
        /\ Hamming(h, e.phash) <= 5

\* C11: a candidate whose hash is within Hamming distance 5 of a hash in the
\* seen set gets no record and leaves the seen set as it was.
C11_NearDuplicateExcluded ==
    InProc =>
        \A k \in 1 .. Len(probe.trail) :
            LET e == probe.trail[k]
            IN (e.phash # NoHash /\ NearSeen(e)) =>
                   /\ e.seen_after = e.seen_before
                   /\ e.recs_after = e.recs_before
                   /\ Rec(1, e.path) \notin Range(probe.wallpapers)

\* Two candidates whose hashes differ in 3 bits: the first is recorded, the
\* second is not, and the seen set still has one element.
C11_Witness ==
    /\ InProc /\ probe.seen0 = {} /\ Len(probe.trail) = 2
    /\ probe.trail[1].phash = 0 /\ probe.trail[1].seen_after = {0}
    /\ probe.trail[2].phash = 7 /\ probe.trail[2].emb
    /\ Hamming(0, 7) = 3
    /\ probe.wallpapers = <<Rec(1, 1)>>
    /\ Cardinality(probe.processed_hashes) = 1

\* The positions of the bits set in the hash h.
BitsOf(h) == {i \in 0 .. (HashBits - 1) : (h \div (2 ^ i)) % 2 = 1}

\* The number of bit positions in which a and b differ.
DifferingBits(a, b) ==
    Cardinality((BitsOf(a) \ BitsOf(b)) \cup (BitsOf(b) \ BitsOf(a)))

\* C12: the distance the duplicate test computes is the number of differing
\* bits, the same in both directions, and the test reports a duplicate
\* exactly when that distance is at most 5 (5 is a duplicate, 6 is not).
C12_SymmetricThreshold ==
    probe.fn = "is_duplicate" =>
        /\ probe.d_ab = DifferingBits(probe.a, probe.b)
        /\ probe.d_ab = probe.d_ba
        /\ probe.dup_ab <=> (DifferingBits(probe.a, probe.b) <= 5)
        /\ probe.dup_ba <=> probe.dup_ab

\* Two different hashes exactly 5 bits apart are duplicates of each other.
C12_Witness ==
    /\ probe.fn = "is_duplicate"
    /\ probe.a < probe.b
    /\ DifferingBits(probe.a, probe.b) = 5
    /\ probe.dup_ab /\ probe.dup_ba

\* The candidate of a loop iteration had a hash, was no near duplicate of a
\* seen hash, and its embedding and its metadata were produced.
Succeeded(e) == e.phash # NoHash /\ ~NearSeen(e) /\ e.emb /\ ~e.raised

\* C13: a candidate whose embedding extraction fails is skipped and the loop
\* goes on with the next candidate: after every iteration the candidates
\* left are the ones after the candidate just considered, and the records of
\* the source are those of the candidates that succeeded, in scan order.
C13_FailureSkipsOneAsset ==
    InProc =>
        LET kept == SelectSeq(probe.trail, Succeeded)
        IN /\ probe.wallpapers = [k \in 1 .. Len(kept) |-> Rec(1, kept[k].path)]
           /\ probe.image_paths =
                  [k \in 1 .. (probe.n - Len(probe.trail)) |-> Len(probe.trail) + k]
           /\ \A k \in 1 .. Len(probe.trail) : probe.trail[k].path = k
           /\ probe.returned # "no" => Len(probe.trail) = probe.n

\* Three candidates, the second one's embedding extraction fails: the source
\* returns two records, for the first and the third.
C13_Witness ==
    /\ InProc /\ probe.n = 3 /\ probe.returned = "value"
    /\ Succeeded(probe.trail[1])
    /\ probe.trail[2].phash # NoHash /\ ~NearSeen(probe.trail[2])
    /\ ~probe.trail[2].emb
    /\ Succeeded(probe.trail[3])
    /\ probe.wallpapers = <<Rec(1, 1), Rec(1, 3)>>

\* The hashes of the candidates the call has recorded before iteration k.
RecordedBefore(k) ==
    {probe.trail[j].phash :
        j \in {i \in 1 .. (k - 1) :
                 probe.trail[i].recs_after # probe.trail[i].recs_before}}

\* A hash of s within the threshold of h.
Near(h, s) == \E g \in s : DifferingBits(h, g) <= 5

C20_CandidateAtomic ==
    InProc =>
        \A k \in 1 .. Len(probe.trail) :
            LET e == probe.trail[k]
            IN /\ \/ /\ e.recs_after = Append(e.recs_before, Rec(1, e.path))
                      /\ e.phash # NoHash
                      /\ e.seen_after = e.seen_before \cup {e.phash}
                   \/ /\ e.recs_after = e.recs_before
                      /\ e.seen_after = e.seen_before
               /\ Succeeded(e) <=> e.recs_after # e.recs_before
               /\ k < Len(probe.trail) =>
                      /\ probe.trail[k + 1].recs_before = e.recs_after
                      /\ probe.trail[k + 1].seen_before = e.seen_after
               /\ k = Len(probe.trail) =>
                      /\ probe.wallpapers = e.recs_after
                      /\ probe.processed_hashes = e.seen_after

\* A candidate is recorded, the next one raises after its embedding was
\* extracted and leaves no trace, the third has no hash and leaves none.
C20_Witness ==
    /\ InProc /\ Len(probe.trail) = 3
    /\ Succeeded(probe.trail[1])
    /\ probe.trail[2].raised /\ ~NearSeen(probe.trail[2])
    /\ probe.trail[3].phash = NoHash
    /\ Len(probe.wallpapers) = 1
    /\ Cardinality(probe.processed_hashes \ probe.seen0) = 1

\* The categories that have a keyword occurring in the lower-cased path.
MatchedCategories(file_path) ==
    {CATEGORY_KEYWORDS[i].category : i \in Matching(lower(file_path))}

\* C16: a path with a keyword gets the category of a keyword it contains,
\* the same for every source name; a path without one gets the default of
\* the source name ("minimal" for a name containing "minimal"), and "other"
\* only when the source name has no default either.
C16_CategoryPrecedence ==
    probe.fn = "detect_category" =>
        LET matched == MatchedCategories(probe.file_path)
            name == lower(probe.repo_name)
        IN /\ matched # {} =>
                  /\ probe.result \in matched
                  /\ \A r \in RepoNames :
                         detect_category(probe.file_path, r) = probe.result
           /\ (matched = {} /\ Contains(<<"m", "i", "n", "i", "m", "a", "l">>, name)) =>
                  probe.result = "minimal"
           /\ (matched = {} /\ probe.result = "other") =>
                  /\ ~Contains(<<"m", "i", "n", "i", "m", "a", "l">>, name)
                  /\ ~Contains(<<"n", "o", "r", "d", "i", "c">>, name)
                  /\ ~Contains(<<"a", "e", "s", "t", "h", "e", "t", "i", "c">>, name)

\* A path without a keyword from the source "ExampleOrg/minimal-wallpapers"
\* is assigned "minimal".
C16_Witness ==
    /\ probe.fn = "detect_category"
    /\ probe.repo_name = <<"E", "x", "a", "m", "p", "l", "e", "O", "r", "g", "/", "m", "i", "n", "i", "m", "a", "l", "-", "w", "a", "l", "l", "p", "a", "p", "e", "r", "s">>
    /\ probe.file_path = <<"i", "m", "g", "/", "x", "1", ".", "p", "n", "g">>
    /\ MatchedCategories(probe.file_path) = {}
    /\ probe.result = "minimal"

C15_GzipRoundTrip ==
    (probe.fn = "save_manifest" /\ probe.returned = "value") =>
        /\ probe.gz_exists
        /\ Decompress(probe.gz) = probe.plain
        /\ probe.plain = WriteText(Serialize(probe.manifest), probe.crlf)

\* A manifest with records, written on a platform whose line separator is
\* CR LF: the compressed file expands to the plain one, CR bytes included.
C15_Witness ==
    /\ probe.fn = "save_manifest" /\ probe.returned = "value"
    /\ probe.crlf /\ probe.manifest.total_wallpapers = MaxCand
    /\ Len(probe.gz) > 0
    /\ 13 \in Range(probe.plain)
    /\ Decompress(probe.gz) = probe.plain

\* C25: a candidate for which compute_perceptual_hash returned "" is
\* skipped: the duplicate flag is not set for it, extract is not called, the
\* seen set and the list stay as they were, and the candidates after it are
\* still processed.
C25_FingerprintFailureSkips ==
    InProc =>
        /\ \A k \in 1 .. Len(probe.trail) :
               LET e == probe.trail[k]
               IN e.phash = NoHash =>
                      /\ ~e.is_duplicate
                      /\ ~e.extract_called
                      /\ e.seen_after = e.seen_before
                      /\ e.recs_after = e.recs_before
                      /\ Len(probe.image_paths) + Len(probe.trail) = probe.n
        /\ probe.returned # "no" => Len(probe.trail) = probe.n

\* The first of two candidates cannot be read, the second is recorded.
C25_Witness ==
    /\ InProc /\ probe.n = 2 /\ probe.returned = "value"
    /\ probe.seen0 = {}
    /\ probe.trail[1].phash = NoHash
    /\ probe.trail[2].extract_called
    /\ probe.wallpapers = <<Rec(1, 2)>>
    /\ Cardinality(probe.processed_hashes) = 1

\* C26: whichever of the four metadata functions fail, the record of the
\* candidate is appended; a failed field holds its default (five times
\* "#000000", brightness 50, contrast 50, resolution "unknown") and every
\* other field the value computed from the image.
C26_MetadataDefaults ==
    probe.fn = "wallpaper_data" =>
        /\ Len(probe.wallpapers) = 1
        /\ LET w == probe.wallpapers[1]
               img == probe.img
           IN /\ w.colors = IF img.colors = "raises"
                            THEN <<"#000000", "#000000", "#000000", "#000000",
                                   "#000000">>
                            ELSE Palette
              /\ w.brightness = IF img.brightness = -1 THEN 50
                                ELSE img.brightness
              /\ w.contrast = IF img.contrast = -1 THEN 50 ELSE img.contrast
              /\ img.size = <<>> => w.resolution = <<"u", "n", "k", "n", "o", "w", "n">>
              /\ img.size = <<800, 600>> => w.resolution = <<"8", "0", "0", "x", "6", "0", "0">>
              /\ img.size = <<1920, 1080>> => w.resolution = <<"1", "9", "2", "0", "x", "1", "0", "8", "0">>

\* The colour extraction fails and the other three succeed: the record has
\* the black palette and the computed brightness, contrast and resolution.
C26_Witness ==
    /\ probe.fn = "wallpaper_data"
    /\ probe.img.colors = "raises" /\ probe.img.brightness = 73
    /\ probe.img.contrast = 20 /\ probe.img.size = <<1920, 1080>>
    /\ Len(probe.wallpapers) = 1
    /\ probe.wallpapers[1].colors[5] = "#000000"
    /\ probe.wallpapers[1].brightness = 73
    /\ probe.wallpapers[1].contrast = 20
    /\ probe.wallpapers[1].resolution = <<"1", "9", "2", "0", "x", "1", "0", "8", "0">>

\* The files of the tree that the scan has to return: extension in the
\* allow-list whatever its case, at most 20 MiB, an image of at least 800 by
\* 600 pixels.
Wanted(files) ==
    {k \in 1 .. Len(files) :
        /\ lower(files[k].suffix) \in {<<".", "j", "p", "g">>, <<".", "j", "p", "e", "g">>, <<".", "p", "n", "g">>, <<".", "w", "e", "b", "p">>}
        /\ files[k].st_size <= 20 * 1024 * 1024
        /\ files[k].image # <<>>
        /\ files[k].image[1] >= 800
        /\ files[k].image[2] >= 600}

\* C27: find_wallpapers returns exactly the wanted files of the tree, each
\* once.
C27_ScanExact ==
    probe.fn = "find_wallpapers" =>
        /\ Range(probe.result) = Wanted(probe.tree)
        /\ Len(probe.result) = Cardinality(Wanted(probe.tree))

\* C28: a second scan of the same tree returns the candidates in the same
\* order as the first.
C28_ScanOrderDeterministic ==
    (probe.fn = "find_wallpapers" /\ probe.again) =>
        probe.result2 = probe.result

\* The candidates the loop of a finished call went through, in its order.
Considered == [k \in 1 .. Len(probe.trail) |-> probe.trail[k].path]

\* C29: with the test flag a call of process_repository considers the first
\* 10 candidates of the scan and no other, whatever becomes of them, and
\* returns at most 10 records; without the flag it considers every
\* candidate of the scan.
C29_TestModeLimit ==
    (InProc /\ probe.planned /\ probe.returned # "no") =>
        LET kept == IF probe.test_mode /\ probe.scanned > 10
                    THEN 10 ELSE probe.scanned
        IN /\ Considered = [k \in 1 .. kept |-> k]
           /\ probe.test_mode => Len(probe.wallpapers) <= 10

\* A call in test mode on a scan of more than 10 candidates has returned;
\* two of the first 10 were faulty, so fewer than 10 records came out.
C29_Witness ==
    /\ InProc /\ probe.planned /\ probe.returned = "value"
    /\ probe.test_mode /\ probe.scanned > 10
    /\ Len(probe.trail) = 10
    /\ Len(probe.wallpapers) = 8

\* The file is what a save that was cut short leaves of a checkpoint: a
\* proper prefix of a document of save_checkpoint.
Truncated(f) ==
    /\ f.exists
    /\ \E ws \in SavedLists, i \in Repos :
           LET d == <<<<0, 0, 0>>>> \o [k \in 1 .. Len(ws) |-> <<1, ws[k].repo, ws[k].path>>]
                                  \o <<<<2, i, 0>>, <<3, 0, 0>>, <<4, 0, 0>>>>
           IN /\ Len(f.data) < Len(d)
              /\ \A k \in 1 .. Len(f.data) : f.data[k] = d[k]

\* C31: on a checkpoint file that is absent, cannot be read or was
\* truncated, load_checkpoint does not raise and returns no records, start
\* index 0 and the empty hash set; the resumed run starts from what a run
\* without the flag starts from, and its loop goes over all sources.
C31_LoadFallsBackToEmpty ==
    (/\ probe.fn = "load_checkpoint"
     /\ (~probe.f.exists \/ ~probe.readable \/ Truncated(probe.f))) =>
        /\ ~probe.raised
        /\ probe.value = <<<<>>, 0, {}>>
        /\ probe.resumed = probe.fresh
        /\ probe.sources = [k \in 1 .. NumRepos |-> k - 1]

\* load_checkpoint has been called on a readable file that a crash cut
\* short in the middle of the record list.
C31_Witness ==
    /\ probe.fn = "load_checkpoint" /\ ~probe.raised
    /\ probe.f.exists /\ probe.readable /\ Truncated(probe.f)
    /\ Len(probe.f.data) = 2
    /\ probe.f.data[2][1] = 1
    /\ probe.value[2] = 0

====
